---- MODULE Spec2Model ----
(***************************************************************************)
(* Wiki-link resolution and graph construction of second-brain.            *)
(*                                                                         *)
(* Strings are sequences of one-character strings; indices into a string   *)
(* (startIndex, endIndex, lastIndex) are the 0-based offsets of the        *)
(* JavaScript source, so character i of s is s[i + 1].                     *)
(***************************************************************************)
EXTENDS Integers, Sequences, FiniteSets, TLC

VARIABLES
    corpus,          \* the documents on disk, in the order the routes read them
    target,          \* the raw link target handed to a library call
    result,          \* what the last call or request returned
    graphLastIndex,  \* lastIndex of the graph route's module-level WIKI_LINK_REGEX
    libLastIndex,    \* lastIndex of the library's module-level WIKI_LINK_REGEX
    pc,              \* where the running graph request stands
    docIdx,          \* getGraphData: position of the second pass in documents
    links,           \* getGraphData: the edge list built so far
    linkCounts,      \* getGraphData: the per-slug counters built so far
    panel            \* BacklinksPanel: its prop, its state and its fetches in flight

vars ==
    <<corpus, target, result, graphLastIndex, libLastIndex, pc, docIdx, links, linkCounts,
      panel>>

(***************************************************************************)
(* Bounds of the model.                                                    *)
(***************************************************************************)
MaxTargetLen == 3

MaxDocs == 2

MaxFiles == 3

MaxRepeat == 9

MaxPieces == 2

MaxFetches == 3

(***************************************************************************)
(* Characters and the string primitives of JavaScript the code uses.       *)
(***************************************************************************)
UpperAlphabet ==
    <<"A","B","C","D","E","F","G","H","I","J","K","L","M",
      "N","O","P","Q","R","S","T","U","V","W","X","Y","Z">>

LowerAlphabet ==
    <<"a","b","c","d","e","f","g","h","i","j","k","l","m",
      "n","o","p","q","r","s","t","u","v","w","x","y","z">>

UpperChars == {UpperAlphabet[i] : i \in DOMAIN UpperAlphabet}

LowerChars == {LowerAlphabet[i] : i \in DOMAIN LowerAlphabet}

DigitChars == {"0","1","2","3","4","5","6","7","8","9"}

\* \s of a JavaScript regular expression, and what trim() strips
SpaceChars == {" ", "\t", "\n", "\r"}

\* \w of a JavaScript regular expression
WordChars == UpperChars \cup LowerChars \cup DigitChars \cup {"_"}

LowerOf == [c \in UpperChars |-> LowerAlphabet[CHOOSE i \in DOMAIN UpperAlphabet : UpperAlphabet[i] = c]]

LowerChar(c) == IF c \in UpperChars THEN LowerOf[c] ELSE c

\* String.prototype.toLowerCase
ToLowerCase(s) == [i \in DOMAIN s |-> LowerChar(s[i])]

\* s.slice(from, to) with 0-based offsets, to exclusive
Slice(s, from, to) == IF to <= from THEN <<>> ELSE SubSeq(s, from + 1, to)

\* String.prototype.trim
Trim(s) ==
    LET keep == {i \in DOMAIN s : s[i] \notin SpaceChars}
    IN  IF keep = {} THEN <<>>
        ELSE SubSeq(s, CHOOSE i \in keep : \A j \in keep : i <= j,
                       CHOOSE i \in keep : \A j \in keep : j <= i)

\* String.prototype.includes
Includes(s, sub) ==
    \E p \in 0..(Len(s) - Len(sub)) : Slice(s, p, p + Len(sub)) = sub

\* s.replace(/[^\w\s-]/g, "")
RemoveNonSlugChars(s) ==
    SelectSeq(s, LAMBDA c : c \in WordChars \cup SpaceChars \cup {"-"})

\* s.replace(/\s+/g, by): every maximal run of whitespace becomes by: its first
\* character is written as by, its other characters are dropped
ReplaceRuns(s, by) ==
    LET written == [i \in DOMAIN s |->
                       IF s[i] \notin SpaceChars THEN <<s[i]>>
                       ELSE IF i > 1 /\ s[i - 1] \in SpaceChars THEN <<>>
                       ELSE <<by>>]
        kept == SelectSeq(written, LAMBDA w : w # <<>>)
    IN  [i \in DOMAIN kept |-> kept[i][1]]

\* s.replace(/\s+/g, "-")
ReplaceSpaceRuns(s) == ReplaceRuns(s, "-")

\* /^\d{4}-\d{2}-\d{2}$/.test(s)
IsDatePattern(s) ==
    /\ Len(s) = 10
    /\ \A i \in {1, 2, 3, 4, 6, 7, 9, 10} : s[i] \in DigitChars
    /\ s[5] = "-"
    /\ s[8] = "-"

JournalsPrefix == <<"j","o","u","r","n","a","l","s","/">>

(***************************************************************************)
(* Target normalisation: the library's and the graph route's own copy.     *)
(***************************************************************************)
\* the third rule without its first replace: punctuation is kept
normalizeWikiTarget_KeepPunctuation(t) ==
    IF Includes(t, <<"/">>) THEN Trim(ToLowerCase(t))
    ELSE IF IsDatePattern(t) THEN JournalsPrefix \o t
    ELSE Trim(ReplaceSpaceRuns(ToLowerCase(t)))

\* a normalisation without its first rule: a target with a slash is cleaned like
\* any other
normalizeWikiTarget_NoSlashRule(t) ==
    IF IsDatePattern(t) THEN JournalsPrefix \o t
    ELSE Trim(ReplaceSpaceRuns(RemoveNonSlugChars(ToLowerCase(t))))

normalizeWikiTarget(t) ==
    IF Includes(t, <<"/">>) THEN Trim(ToLowerCase(t))
    ELSE IF IsDatePattern(t) THEN JournalsPrefix \o t
    ELSE Trim(ReplaceSpaceRuns(RemoveNonSlugChars(ToLowerCase(t))))

normalizeToSlug(t) ==
    IF Includes(t, <<"/">>) THEN Trim(ToLowerCase(t))
    ELSE IF IsDatePattern(t) THEN JournalsPrefix \o t
    ELSE Trim(ReplaceSpaceRuns(RemoveNonSlugChars(ToLowerCase(t))))

(***************************************************************************)
(* Inputs of the normalisation runs: every string of at most MaxTargetLen  *)
(* characters over a small alphabet with one character of each class the   *)
(* rules tell apart, and every string one insertion or one replacement     *)
(* away from a date.                                                       *)
(***************************************************************************)
NormAlphabet == {"a", "A", "1", "-", " ", "!", "/"}

ShortTargets == UNION {[1..n -> NormAlphabet] : n \in 0..MaxTargetLen}

DateTarget == <<"2","0","2","6","-","0","1","-","2","9">>

DateNeighbours ==
    {DateTarget}
    \cup {Slice(DateTarget, 0, p) \o <<c>> \o Slice(DateTarget, p, 10) :
            p \in 0..10, c \in NormAlphabet}
    \cup {Slice(DateTarget, 0, p) \o <<c>> \o Slice(DateTarget, p + 1, 10) :
            p \in 0..9, c \in NormAlphabet}

SecondBrainTarget ==
    <<"S","e","c","o","n","d"," ","B","r","a","i","n"," ","S","y","s","t","e","m","!">>

NormTargets == ShortTargets \cup DateNeighbours \cup {SecondBrainTarget}

NoResult == [op |-> "none"]

\* BacklinksPanel.tsx lines 23-25: the state of a panel that has fetched nothing
NoPanel ==
    [documentSlug |-> <<>>, backlinks |-> <<>>, outlinks |-> <<>>, loading |-> TRUE,
     inFlight |-> {}, fetches |-> 0]

Idle ==
    /\ panel = NoPanel
    /\ graphLastIndex = 0
    /\ libLastIndex = 0
    /\ pc = "idle"
    /\ docIdx = 0
    /\ links = <<>>
    /\ linkCounts = <<>>

InitNorm ==
    /\ target \in NormTargets
    /\ corpus = <<>>
    /\ result = NoResult
    /\ Idle

\* a call of the library's normalizeWikiTarget
CallNormalizeWikiTarget ==
    /\ result' = [op |-> "normalizeWikiTarget", value |-> normalizeWikiTarget(target)]
    /\ UNCHANGED <<corpus, target, graphLastIndex, libLastIndex, pc, docIdx, links, linkCounts,
                   panel>>

\* a call of the graph route's normalizeToSlug
CallNormalizeToSlug ==
    /\ result' = [op |-> "normalizeToSlug", value |-> normalizeToSlug(target)]
    /\ UNCHANGED <<corpus, target, graphLastIndex, libLastIndex, pc, docIdx, links, linkCounts,
                   panel>>

NextNorm == CallNormalizeWikiTarget \/ CallNormalizeToSlug

SpecNorm == InitNorm /\ [][NextNorm]_vars

(***************************************************************************)
(* Documents.  A title read from frontmatter is whatever YAML made of it:  *)
(* a string, or a number, a date, a list (type "other"), on which          *)
(* toLowerCase is not a function.                                          *)
(***************************************************************************)
StringTitle(s) == [type |-> "string", chars |-> s]

OtherTitle == [type |-> "other", chars |-> <<"2","0","2","4">>]

Doc(slug, title, content) == [slug |-> slug, title |-> title, content |-> content]

\* d.slug.split("/").pop() || ""
LastSegment(slug) ==
    LET cuts == {i \in DOMAIN slug : slug[i] = "/"}
    IN  IF cuts = {} THEN slug
        ELSE Slice(slug, CHOOSE i \in cuts : \A j \in cuts : j <= i, Len(slug))

\* d.title.toLowerCase() throws a TypeError on a title that is no string
TitleThrows(d) == d.title.type # "string"

\* rule 1: d.slug === normalized
SlugMatches(d, normalized) == d.slug = normalized

\* rule 2: filename === normalized || filename === target.toLowerCase().replace(/\s+/g, "-")
FilenameMatches(d, t, normalized) ==
    \/ LastSegment(d.slug) = normalized
    \/ LastSegment(d.slug) = ReplaceSpaceRuns(ToLowerCase(t))

\* rule 3: d.title.toLowerCase() === target.toLowerCase()
TitleMatches(d, t) ==
    /\ ~TitleThrows(d)
    /\ ToLowerCase(d.title.chars) = ToLowerCase(t)

\* rule 4: title includes target, or target includes title, both lower-cased
FuzzyMatches(d, t) ==
    /\ ~TitleThrows(d)
    /\ \/ Includes(ToLowerCase(d.title.chars), ToLowerCase(t))
       \/ Includes(ToLowerCase(t), ToLowerCase(d.title.chars))

\* Array.prototype.find over the indices whose element passes the callback: the
\* first of them, 0 when there is none
FindIndex(hits) ==
    IF hits = {} THEN 0 ELSE CHOOSE i \in hits : \A j \in hits : i <= j

Null == [kind |-> "null"]

Throw == [kind |-> "throw"]

Found(d) == [kind |-> "doc", doc |-> d]

\* resolveWikiLink comparing slugs with the raw target instead of the normalised one
resolveWikiLink_RawSlug(t, docs) ==
    LET normalized == normalizeWikiTarget(t)
        exactMatch == FindIndex({i \in DOMAIN docs : SlugMatches(docs[i], t)})
        filenameMatch == FindIndex({i \in DOMAIN docs : FilenameMatches(docs[i], t, normalized)})
        titleMatch == FindIndex({i \in DOMAIN docs : TitleThrows(docs[i]) \/ TitleMatches(docs[i], t)})
        fuzzyMatch == FindIndex({i \in DOMAIN docs : TitleThrows(docs[i]) \/ FuzzyMatches(docs[i], t)})
    IN  IF exactMatch # 0 THEN Found(docs[exactMatch])
        ELSE IF filenameMatch # 0 THEN Found(docs[filenameMatch])
        ELSE IF titleMatch # 0
             THEN IF TitleThrows(docs[titleMatch]) THEN Throw ELSE Found(docs[titleMatch])
        ELSE IF fuzzyMatch # 0
             THEN IF TitleThrows(docs[fuzzyMatch]) THEN Throw ELSE Found(docs[fuzzyMatch])
        ELSE Null

\* resolveWikiLink trying the title before the file name
resolveWikiLink_TitleFirst(t, docs) ==
    LET normalized == normalizeWikiTarget(t)
        exactMatch == FindIndex({i \in DOMAIN docs : SlugMatches(docs[i], normalized)})
        filenameMatch == FindIndex({i \in DOMAIN docs : FilenameMatches(docs[i], t, normalized)})
        titleMatch == FindIndex({i \in DOMAIN docs : TitleThrows(docs[i]) \/ TitleMatches(docs[i], t)})
        fuzzyMatch == FindIndex({i \in DOMAIN docs : TitleThrows(docs[i]) \/ FuzzyMatches(docs[i], t)})
    IN  IF exactMatch # 0 THEN Found(docs[exactMatch])
        ELSE IF titleMatch # 0
             THEN IF TitleThrows(docs[titleMatch]) THEN Throw ELSE Found(docs[titleMatch])
        ELSE IF filenameMatch # 0 THEN Found(docs[filenameMatch])
        ELSE IF fuzzyMatch # 0
             THEN IF TitleThrows(docs[fuzzyMatch]) THEN Throw ELSE Found(docs[fuzzyMatch])
        ELSE Null

\* resolveWikiLink without the fuzzy rule
resolveWikiLink_NoFuzzy(t, docs) ==
    LET normalized == normalizeWikiTarget(t)
        exactMatch == FindIndex({i \in DOMAIN docs : SlugMatches(docs[i], normalized)})
        filenameMatch == FindIndex({i \in DOMAIN docs : FilenameMatches(docs[i], t, normalized)})
        titleMatch == FindIndex({i \in DOMAIN docs : TitleThrows(docs[i]) \/ TitleMatches(docs[i], t)})
    IN  IF exactMatch # 0 THEN Found(docs[exactMatch])
        ELSE IF filenameMatch # 0 THEN Found(docs[filenameMatch])
        ELSE IF titleMatch # 0
             THEN IF TitleThrows(docs[titleMatch]) THEN Throw ELSE Found(docs[titleMatch])
        ELSE Null

(***************************************************************************)
(* resolveWikiLink: the four finds, each tried only when the one before    *)
(* found nothing.  A find whose callback reads d.title stops at the first  *)
(* document that matches or whose title is no string (the callback throws  *)
(* there).  The outcome is a document of the list, null, or the TypeError. *)
(***************************************************************************)
resolveWikiLink(t, docs) ==
    LET normalized == normalizeWikiTarget(t)
        exactMatch == FindIndex({i \in DOMAIN docs : SlugMatches(docs[i], normalized)})
        filenameMatch == FindIndex({i \in DOMAIN docs : FilenameMatches(docs[i], t, normalized)})
        titleMatch == FindIndex({i \in DOMAIN docs : TitleThrows(docs[i]) \/ TitleMatches(docs[i], t)})
        fuzzyMatch == FindIndex({i \in DOMAIN docs : TitleThrows(docs[i]) \/ FuzzyMatches(docs[i], t)})
    IN  IF exactMatch # 0 THEN Found(docs[exactMatch])
        ELSE IF filenameMatch # 0 THEN Found(docs[filenameMatch])
        ELSE IF titleMatch # 0
             THEN IF TitleThrows(docs[titleMatch]) THEN Throw ELSE Found(docs[titleMatch])
        ELSE IF fuzzyMatch # 0
             THEN IF TitleThrows(docs[fuzzyMatch]) THEN Throw ELSE Found(docs[fuzzyMatch])
        ELSE Null

FoundSlug(slug) == [kind |-> "slug", slug |-> slug]

\* the graph route's copy, which returns the slug
findDocumentSlug(t, docs) ==
    LET normalized == normalizeToSlug(t)
        exactMatch == FindIndex({i \in DOMAIN docs : SlugMatches(docs[i], normalized)})
        filenameMatch == FindIndex({i \in DOMAIN docs : FilenameMatches(docs[i], t, normalized)})
        titleMatch == FindIndex({i \in DOMAIN docs : TitleThrows(docs[i]) \/ TitleMatches(docs[i], t)})
        fuzzyMatch == FindIndex({i \in DOMAIN docs : TitleThrows(docs[i]) \/ FuzzyMatches(docs[i], t)})
    IN  IF exactMatch # 0 THEN FoundSlug(docs[exactMatch].slug)
        ELSE IF filenameMatch # 0 THEN FoundSlug(docs[filenameMatch].slug)
        ELSE IF titleMatch # 0
             THEN IF TitleThrows(docs[titleMatch]) THEN Throw
                  ELSE FoundSlug(docs[titleMatch].slug)
        ELSE IF fuzzyMatch # 0
             THEN IF TitleThrows(docs[fuzzyMatch]) THEN Throw
                  ELSE FoundSlug(docs[fuzzyMatch].slug)
        ELSE Null

(***************************************************************************)
(* Inputs of the resolver runs: corpora of at most MaxDocs documents with  *)
(* distinct slugs, in every order, and targets written the ways authors    *)
(* write them (slug, file name, title, part of a title, nothing known).    *)
(***************************************************************************)
ConceptsFoo == <<"c","o","n","c","e","p","t","s","/","f","o","o">>

ConceptsBar == <<"c","o","n","c","e","p","t","s","/","b","a","r">>

ProjectsFoo == <<"p","r","o","j","e","c","t","s","/","f","o","o">>

JournalsDate == JournalsPrefix \o DateTarget

ResolveSlugs == {ConceptsFoo, ConceptsBar, ProjectsFoo, JournalsDate}

ResolveTitles ==
    { StringTitle(<<"F","o","o">>), StringTitle(<<"B","a","r">>),
      StringTitle(<<"F","o","o"," ","B","a","r">>), StringTitle(<<>>), OtherTitle }

ResolveDocs == {Doc(s, t, <<>>) : s \in ResolveSlugs, t \in ResolveTitles}

DistinctSlugs(docs) ==
    \A i, j \in DOMAIN docs : docs[i].slug = docs[j].slug => i = j

CorporaOf(docs, max) ==
    {c \in UNION {[1..n -> docs] : n \in 0..max} : DistinctSlugs(c)}

ResolveTargets ==
    { <<"f","o","o">>, <<"F","o","o">>, <<"b","a","r">>, <<"f","o","o","!">>,
      <<"F","o","o"," ","B","a","r">>, <<"o","o">>,
      <<"F","o","o"," ","B","a","r"," ","B","a","z">>,
      ConceptsFoo, <<"C","o","n","c","e","p","t","s","/","F","o","o">>,
      ProjectsFoo, JournalsDate, DateTarget, <<"z","z","z">>, <<>> }

InitResolve ==
    /\ target \in ResolveTargets
    /\ corpus \in CorporaOf(ResolveDocs, MaxDocs)
    /\ result = NoResult
    /\ Idle

\* a call of the library's resolveWikiLink
CallResolveWikiLink ==
    /\ result' = [op |-> "resolveWikiLink", value |-> resolveWikiLink(target, corpus)]
    /\ UNCHANGED <<corpus, target, graphLastIndex, libLastIndex, pc, docIdx, links, linkCounts,
                   panel>>

\* a call of the graph route's findDocumentSlug
CallFindDocumentSlug ==
    /\ result' = [op |-> "findDocumentSlug", value |-> findDocumentSlug(target, corpus)]
    /\ UNCHANGED <<corpus, target, graphLastIndex, libLastIndex, pc, docIdx, links, linkCounts,
                   panel>>

NextResolve == CallResolveWikiLink \/ CallFindDocumentSlug

SpecResolve == InitResolve /\ [][NextResolve]_vars

(***************************************************************************)
(* C1: normalisation is idempotent: normalising the value a call returned  *)
(* gives that value again, for normalizeWikiTarget and for normalizeToSlug,*)
(* also when the third rule's output is shaped like a date.                *)
(***************************************************************************)
C1_NormalizeIdempotent ==
    /\ result.op = "normalizeWikiTarget" => normalizeWikiTarget(result.value) = result.value
    /\ result.op = "normalizeToSlug" => normalizeToSlug(result.value) = result.value

(***************************************************************************)
(* The wiki-link pattern /\[\[([^\]|]+)(?:\|([^\]]+))?\]\]/g.  A match at  *)
(* offset p is "[[", the longest run of characters other than "]" and "|"  *)
(* (at least one), then either "]]" or "|", the longest run of characters  *)
(* other than "]" (at least one) and "]]": a shorter run is always         *)
(* followed by a character of the run, which neither "|" nor "]" matches.  *)
(* The graph route's pattern differs only in not capturing the alias.      *)
(***************************************************************************)
NoMatch == [found |-> FALSE]

\* the offset of the first character at or after from that is in stops, Len(s) when none
RunEnd(s, from, stops) ==
    LET ends == {q \in from..(Len(s) - 1) : s[q + 1] \in stops}
    IN  IF ends = {} THEN Len(s) ELSE CHOOSE q \in ends : \A r \in ends : q <= r

ClosedAt(s, q) == q + 2 <= Len(s) /\ s[q + 1] = "]" /\ s[q + 2] = "]"

MatchAt(s, p) ==
    IF ~(p + 2 <= Len(s) /\ s[p + 1] = "[" /\ s[p + 2] = "[") THEN NoMatch
    ELSE LET q == RunEnd(s, p + 2, {"]", "|"})
             r == RunEnd(s, q + 1, {"]"})
         IN  IF q = p + 2 \/ q = Len(s) THEN NoMatch
             ELSE IF s[q + 1] = "]"
                  THEN IF ClosedAt(s, q)
                       THEN [found |-> TRUE, index |-> p, end |-> q + 2,
                             text |-> Slice(s, p, q + 2),
                             group1 |-> Slice(s, p + 2, q), hasAlias |-> FALSE, group2 |-> <<>>]
                       ELSE NoMatch
             ELSE IF r > q + 1 /\ ClosedAt(s, r)
                  THEN [found |-> TRUE, index |-> p, end |-> r + 2,
                        text |-> Slice(s, p, r + 2),
                        group1 |-> Slice(s, p + 2, q), hasAlias |-> TRUE,
                        group2 |-> Slice(s, q + 1, r)]
                  ELSE NoMatch

\* WIKI_LINK_REGEX.exec(s) with the g flag, the search starting at lastIndex: the
\* leftmost match at or after it.  On a match lastIndex becomes the match's end, on
\* none (also when lastIndex is past the end) it becomes 0
RegexExec(s, lastIndex) ==
    LET starts == {p \in lastIndex..(Len(s) - 1) : MatchAt(s, p).found}
    IN  IF starts = {} THEN NoMatch
        ELSE MatchAt(s, CHOOSE p \in starts : \A o \in starts : p <= o)

\* an occurrence whose end is taken from the length of the target group
WikiLink_GroupEnd(m) ==
    [ raw |-> m.text, target |-> Trim(m.group1), hasAlias |-> m.hasAlias,
      alias |-> Trim(m.group2), startIndex |-> m.index,
      endIndex |-> m.index + Len(m.group1) ]

WikiLink(m) ==
    [ raw |-> m.text, target |-> Trim(m.group1), hasAlias |-> m.hasAlias,
      alias |-> Trim(m.group2), startIndex |-> m.index, endIndex |-> m.end ]

\* the while loop of extractWikiLinks, the regex standing at lastIndex; each
\* round's match m is the one value of the exec
RECURSIVE ExecLoop(_, _)
ExecLoop(content, lastIndex) ==
    CHOOSE found \in { IF ~m.found THEN <<>>
                       ELSE <<WikiLink(m)>> \o ExecLoop(content, m.end) :
                       m \in {RegexExec(content, lastIndex)} } : TRUE

\* extractWikiLinks called while the library's regex stands at lastIndex; the
\* call leaves the regex at 0
extractWikiLinks(content, lastIndex) == ExecLoop(content, lastIndex)

\* the regex after the loop of a call that never resets it: behind the last match
CursorAfterExtract_LastMatch(content, lastIndex) ==
    LET ls == ExecLoop(content, lastIndex)
    IN  IF ls = <<>> THEN lastIndex ELSE ls[Len(ls)].endIndex

\* line 35: WIKI_LINK_REGEX.lastIndex = 0
CursorAfterExtract(content, lastIndex) == 0

\* a linkRenderer as callers pass it: the display text, marked when unresolved
linkRenderer(t, alias, resolved) ==
    IF resolved = Null THEN <<"?">> \o alias ELSE <<"@">> \o alias

\* the callback of line 156: the groups as matched, the alias defaulting to the target
RenderMatch(m, docs) ==
    linkRenderer(m.group1, IF m.hasAlias THEN m.group2 ELSE m.group1,
                 resolveWikiLink(m.group1, docs))

\* String.prototype.replace with a global regex: the matches from offset 0 on,
\* each replaced by what the callback returns
RECURSIVE ReplaceFrom(_, _, _)
ReplaceFrom(content, from, docs) ==
    CHOOSE text \in { IF ~m.found THEN Slice(content, from, Len(content))
                      ELSE Slice(content, from, m.index) \o RenderMatch(m, docs)
                           \o ReplaceFrom(content, m.end, docs) :
                      m \in {RegexExec(content, from)} } : TRUE

\* the callback throws when resolveWikiLink does
RECURSIVE ReplaceThrows(_, _, _)
ReplaceThrows(content, from, docs) ==
    \E m \in {RegexExec(content, from)} :
        /\ m.found
        /\ \/ resolveWikiLink(m.group1, docs) = Throw
           \/ ReplaceThrows(content, m.end, docs)

\* lines 151-160; replace starts at offset 0 wherever the regex stands
replaceWikiLinks(content, docs) ==
    IF ReplaceThrows(content, 0, docs) THEN [kind |-> "throw"]
    ELSE [kind |-> "ok", text |-> ReplaceFrom(content, 0, docs)]

\* replace sets lastIndex to 0 before its first exec, and its last exec fails
CursorAfterReplace(content, lastIndex) == 0

(***************************************************************************)
(* The graph route.  GET calls getGraphData, which is synchronous: no      *)
(* other request runs between its steps.  The second pass is taken one     *)
(* exec at a time: the regex is the module's, so where a pass stops is     *)
(* where the next request's first exec starts.                             *)
(***************************************************************************)
\* line 126 without the comparison with the document's own slug
LinkAccepted_SelfToo(docSlug, found) ==
    found.kind = "slug" /\ found.slug # <<>>

\* line 126: targetSlug && targetSlug !== doc.slug
LinkAccepted(docSlug, found) ==
    found.kind = "slug" /\ found.slug # <<>> /\ found.slug # docSlug

LinkKey(source, targetSlug) == source \o <<"|">> \o targetSlug

\* lines 128-134: push the edge unless it is there in either direction
PushLink(ls, source, targetSlug) ==
    LET existingLinks == {LinkKey(ls[i].source, ls[i].target) : i \in DOMAIN ls}
    IN  IF /\ LinkKey(source, targetSlug) \notin existingLinks
           /\ LinkKey(targetSlug, source) \notin existingLinks
        THEN Append(ls, [source |-> source, target |-> targetSlug])
        ELSE ls

\* linkCounts[k] = (linkCounts[k] || 0) + 1
Increment(lc, k) ==
    [x \in DOMAIN lc \cup {k} |->
        IF x = k THEN (IF k \in DOMAIN lc THEN lc[k] ELSE 0) + 1 ELSE lc[x]]

\* lines 137-138
CountLink(lc, source, targetSlug) == Increment(Increment(lc, source), targetSlug)

Max(a, b) == IF a >= b THEN a ELSE b

Min(a, b) == IF a <= b THEN a ELSE b

\* line 152 without the upper clamp
NodeSize_NoCap(linkCount) == Max(4, 4 + linkCount * 2)

\* line 152
NodeSize(linkCount) == Max(4, Min(20, 4 + linkCount * 2))

\* nodes built from the counters instead of the documents: a document without
\* links gets none
GraphNodes_Linked(docs, lc) ==
    LET linked == SelectSeq(docs, LAMBDA d : d.slug \in DOMAIN lc)
    IN  [i \in DOMAIN linked |->
            [id |-> linked[i].slug, title |-> linked[i].title,
             linkCount |-> lc[linked[i].slug], size |-> NodeSize(lc[linked[i].slug])]]

\* lines 145-154: one node per document
GraphNodes(docs, lc) ==
    [i \in DOMAIN docs |->
        LET linkCount == IF docs[i].slug \in DOMAIN lc THEN lc[docs[i].slug] ELSE 0
        IN  [id |-> docs[i].slug, title |-> docs[i].title,
             linkCount |-> linkCount, size |-> NodeSize(linkCount)]]

\* GET /api/graph arrives: the first pass reads the documents, the second starts
GraphStart ==
    /\ pc = "idle"
    /\ pc' = "scan"
    /\ docIdx' = 1
    /\ links' = <<>>
    /\ linkCounts' = <<>>
    /\ result' = [op |-> "graph", kind |-> "pending", startedAt |-> graphLastIndex]
    /\ UNCHANGED <<corpus, target, graphLastIndex, libLastIndex, panel>>

\* exec finds a link and findDocumentSlug returns
GraphLink ==
    /\ pc = "scan"
    /\ docIdx <= Len(corpus)
    /\ LET doc == corpus[docIdx]
           m == RegexExec(doc.content, graphLastIndex)
           found == IF m.found THEN findDocumentSlug(Trim(m.group1), corpus) ELSE Throw
       IN  /\ m.found
           /\ found # Throw
           /\ graphLastIndex' = m.end
           /\ IF LinkAccepted(doc.slug, found)
              THEN /\ links' = PushLink(links, doc.slug, found.slug)
                   /\ linkCounts' = CountLink(linkCounts, doc.slug, found.slug)
              ELSE UNCHANGED <<links, linkCounts>>
    /\ UNCHANGED <<corpus, target, result, libLastIndex, pc, docIdx, panel>>

\* exec finds a link and findDocumentSlug throws: getGraphData is left through the
\* exception, line 141 is not reached, and GET answers 500
GraphThrow ==
    /\ pc = "scan"
    /\ docIdx <= Len(corpus)
    /\ LET doc == corpus[docIdx]
           m == RegexExec(doc.content, graphLastIndex)
       IN  /\ m.found
           /\ findDocumentSlug(Trim(m.group1), corpus) = Throw
           /\ graphLastIndex' = m.end
    /\ result' = [op |-> "graph", kind |-> "error", status |-> 500,
                  startedAt |-> result.startedAt]
    /\ pc' = "idle"
    /\ docIdx' = 0
    /\ links' = <<>>
    /\ linkCounts' = <<>>
    /\ UNCHANGED <<corpus, target, libLastIndex, panel>>

\* exec finds nothing more: the loop ends, line 141, the next document
GraphNextDoc ==
    /\ pc = "scan"
    /\ docIdx <= Len(corpus)
    /\ ~RegexExec(corpus[docIdx].content, graphLastIndex).found
    /\ graphLastIndex' = 0
    /\ docIdx' = docIdx + 1
    /\ UNCHANGED <<corpus, target, result, libLastIndex, pc, links, linkCounts, panel>>

\* every document is scanned: the nodes are built and GET answers the graph
GraphReturn ==
    /\ pc = "scan"
    /\ docIdx > Len(corpus)
    /\ result' = [op |-> "graph", kind |-> "ok", startedAt |-> result.startedAt,
                  nodes |-> GraphNodes(corpus, linkCounts), links |-> links]
    /\ pc' = "idle"
    /\ docIdx' = 0
    /\ links' = <<>>
    /\ linkCounts' = <<>>
    /\ UNCHANGED <<corpus, target, graphLastIndex, libLastIndex, panel>>

\* a first pass that answers with what it has read when a file fails
ReadFailure_Partial(documents, startedAt) ==
    [op |-> "graph", kind |-> "ok", startedAt |-> startedAt,
     nodes |-> GraphNodes(documents, <<>>), links |-> <<>>]

\* lines 163-168: the exception of the first pass reaches the catch of GET; the
\* documents read so far are dropped with it
ReadFailure(documents, startedAt) ==
    [op |-> "graph", kind |-> "error", status |-> 500, startedAt |-> startedAt]

\* GET arrives and the first pass fails at a file (readFileSync or matter throws):
\* the second pass is not reached
GraphReadThrow ==
    /\ pc = "idle"
    /\ \E i \in DOMAIN corpus :
          result' = ReadFailure(SubSeq(corpus, 1, i - 1), graphLastIndex)
    /\ UNCHANGED <<corpus, target, graphLastIndex, libLastIndex, pc, docIdx, links, linkCounts,
                   panel>>

(***************************************************************************)
(* The links route: GET /api/links?slug=... answers the backlinks and the  *)
(* outlinks of one document.  The handler is synchronous too.              *)
(***************************************************************************)
ContextWindow == 60

\* a context that marks no cut
BacklinkContext_Unmarked(content, link) ==
    LET contextStart == Max(0, link.startIndex - ContextWindow)
        contextEnd == Min(Len(content), link.endIndex + ContextWindow)
        cut == Slice(content, contextStart, contextEnd)
        spaced == [i \in DOMAIN cut |-> IF cut[i] = "\n" THEN " " ELSE cut[i]]
    IN  Trim(ReplaceRuns(spaced, " "))

\* lines 86-92: the text around a link, cut at the window, marked and cleaned
BacklinkContext(content, link) ==
    LET contextStart == Max(0, link.startIndex - ContextWindow)
        contextEnd == Min(Len(content), link.endIndex + ContextWindow)
        cut == Slice(content, contextStart, contextEnd)
        led == IF contextStart > 0 THEN <<".",".",".">> \o cut ELSE cut
        trailed == IF contextEnd < Len(content) THEN led \o <<".",".",".">> ELSE led
        spaced == [i \in DOMAIN trailed |-> IF trailed[i] = "\n" THEN " " ELSE trailed[i]]
    IN  Trim(ReplaceRuns(spaced, " "))

\* lines 78-101 for one document: the first of its links that resolveWikiLink does
\* not answer with null decides: a backlink, or the TypeError
\* the loop of lines 80-101 without its break: the last matching link decides
FirstBacklink_Last(doc, targetDoc, ls) ==
    LET pool == <<Doc(targetDoc.slug, targetDoc.title, <<>>)>>
        hits == {i \in DOMAIN ls : resolveWikiLink(ls[i].target, pool) # Null}
        k == IF hits = {} THEN 0 ELSE CHOOSE i \in hits : \A j \in hits : j <= i
    IN  IF k = 0 THEN Null
        ELSE IF resolveWikiLink(ls[k].target, pool) = Throw THEN Throw
        ELSE [kind |-> "backlink", slug |-> doc.slug, title |-> doc.title,
              context |-> BacklinkContext(doc.content, ls[k])]

FirstBacklink(doc, targetDoc, ls) ==
    LET pool == <<Doc(targetDoc.slug, targetDoc.title, <<>>)>>
        k == FindIndex({i \in DOMAIN ls : resolveWikiLink(ls[i].target, pool) # Null})
    IN  IF k = 0 THEN Null
        ELSE IF resolveWikiLink(ls[k].target, pool) = Throw THEN Throw
        ELSE [kind |-> "backlink", slug |-> doc.slug, title |-> doc.title,
              context |-> BacklinkContext(doc.content, ls[k])]

\* line 78: the document's links are extracted once
BacklinkOf(doc, targetDoc, lastIndex) ==
    CHOOSE b \in { FirstBacklink(doc, targetDoc, ls) :
                   ls \in {extractWikiLinks(doc.content, lastIndex)} } : TRUE

\* lines 73-102: the documents other than the target, in corpus order
RECURSIVE Backlinks(_, _, _)
Backlinks(docs, targetDoc, lastIndex) ==
    IF docs = <<>> THEN <<>>
    ELSE IF Head(docs).slug = targetDoc.slug
         THEN Backlinks(Tail(docs), targetDoc, lastIndex)
         ELSE SelectSeq(<<BacklinkOf(Head(docs), targetDoc, lastIndex)>>,
                        LAMBDA b : b # Null)
              \o Backlinks(Tail(docs), targetDoc, 0)

\* a title || fallback: the empty string is falsy
Truthy(title) == title.type # "string" \/ title.chars # <<>>

\* lines 113-118
OutlinkOf(t, resolved) ==
    IF resolved = Throw THEN Throw
    ELSE [ kind |-> "outlink",
           slug |-> IF resolved # Null /\ resolved.doc.slug # <<>>
                    THEN resolved.doc.slug ELSE t,
           title |-> IF resolved # Null /\ Truthy(resolved.doc.title)
                     THEN resolved.doc.title ELSE StringTitle(t),
           exists |-> resolved # Null ]

\* line 112, then lines 113-118
OutlinkEntry(t, docs) ==
    CHOOSE entry \in {OutlinkOf(t, resolved) : resolved \in {resolveWikiLink(t, docs)}} : TRUE

\* the outlinks loop with a seen set of the raw targets as written
RECURSIVE Outlinks_CaseSensitive(_, _, _)
Outlinks_CaseSensitive(ls, seenTargets, docs) ==
    IF ls = <<>> THEN <<>>
    ELSE IF Head(ls).target \in seenTargets
         THEN Outlinks_CaseSensitive(Tail(ls), seenTargets, docs)
         ELSE <<OutlinkEntry(Head(ls).target, docs)>>
              \o Outlinks_CaseSensitive(Tail(ls), seenTargets \cup {Head(ls).target}, docs)

\* lines 108-119: one entry per target not seen before, lower-cased
RECURSIVE Outlinks(_, _, _)
Outlinks(ls, seenTargets, docs) ==
    IF ls = <<>> THEN <<>>
    ELSE LET key == ToLowerCase(Head(ls).target)
         IN  IF key \in seenTargets THEN Outlinks(Tail(ls), seenTargets, docs)
             ELSE <<OutlinkEntry(Head(ls).target, docs)>>
                  \o Outlinks(Tail(ls), seenTargets \cup {key}, docs)

ServerError(op) == [op |-> op, kind |-> "error", status |-> 500]

\* the answer with the outlinks to the requested document itself left out
LinksAnswer_NoSelf(targetSlug, backlinks, outlinks) ==
    IF \E i \in DOMAIN backlinks : backlinks[i] = Throw THEN ServerError("links")
    ELSE IF \E i \in DOMAIN outlinks : outlinks[i] = Throw THEN ServerError("links")
    ELSE [op |-> "links", kind |-> "ok", slug |-> targetSlug,
          backlinks |-> backlinks,
          outlinks |-> SelectSeq(outlinks, LAMBDA e : e.slug # targetSlug)]

\* lines 121-128: the answer, or the catch when a resolveWikiLink threw
LinksAnswer(targetSlug, backlinks, outlinks) ==
    IF \E i \in DOMAIN backlinks : backlinks[i] = Throw THEN ServerError("links")
    ELSE IF \E i \in DOMAIN outlinks : outlinks[i] = Throw THEN ServerError("links")
    ELSE [op |-> "links", kind |-> "ok", slug |-> targetSlug,
          backlinks |-> backlinks, outlinks |-> outlinks]

\* lines 52-128
LinksResponse(targetSlug, docs, lastIndex) ==
    LET found == FindIndex({i \in DOMAIN docs : docs[i].slug = targetSlug})
        targetDoc == docs[found]
    IN  IF targetSlug = <<>>
        THEN [op |-> "links", kind |-> "error", status |-> 400]
        ELSE IF found = 0
        THEN [op |-> "links", kind |-> "ok", slug |-> targetSlug,
              backlinks |-> <<>>, outlinks |-> <<>>]
        ELSE CHOOSE answer \in
                 { LinksAnswer(targetSlug, backlinks, Outlinks(ls, {}, docs)) :
                     backlinks \in {Backlinks(docs, targetDoc, lastIndex)},
                     ls \in {extractWikiLinks(targetDoc.content, 0)} } : TRUE

(***************************************************************************)
(* The documents of the server runs: three files, one of them with a       *)
(* title that is a string or not, each with one of a few contents.         *)
(***************************************************************************)
ConceptsA == <<"c","o","n","c","e","p","t","s","/","a">>

ConceptsB == <<"c","o","n","c","e","p","t","s","/","b">>

ProjectsC == <<"p","r","o","j","e","c","t","s","/","c">>

Link(t) == <<"[","[">> \o t \o <<"]","]">>

RECURSIVE Repeat(_, _)
Repeat(s, n) == IF n = 0 THEN <<>> ELSE s \o Repeat(s, n - 1)

SelfLink == Link(<<"a">>)

TwiceB == Link(<<"b">>) \o <<" ">> \o Link(<<"B">>)

ManyB == Repeat(Link(<<"b">>), MaxRepeat)

TwiceZzz ==
    Link(<<"Z","z","z">>) \o <<"\n">> \o Link(<<"z","z","z">>) \o <<" ">>
        \o Link(<<"c","|","s","e","e"," ","c">>)

BAndZzz == Link(<<"b">>) \o <<" ">> \o Link(<<"z","z","z">>)

ServerDocs ==
    {Doc(ConceptsA, StringTitle(<<"A","n","t">>), c) : c \in {SelfLink, TwiceB, ManyB}}
    \cup {Doc(ConceptsB, t, c) : t \in {StringTitle(<<"B","e","e">>), OtherTitle},
                                 c \in {<<>>, SelfLink, TwiceZzz}}
    \cup {Doc(ProjectsC, StringTitle(<<"C","a","t">>), c) : c \in {<<>>, SelfLink, BAndZzz}}

Init ==
    /\ corpus \in CorporaOf(ServerDocs, MaxFiles)
    /\ target = <<>>
    /\ result = NoResult
    /\ Idle

\* between two requests the author repairs the frontmatter of a file whose title
\* was no string; every request reads the files anew
RepairTitle ==
    /\ pc = "idle"
    /\ \E i \in DOMAIN corpus :
          /\ TitleThrows(corpus[i])
          /\ corpus' = [corpus EXCEPT ![i].title = StringTitle(<<"B","e","e">>)]
    /\ result' = NoResult
    /\ UNCHANGED <<target, graphLastIndex, libLastIndex, pc, docIdx, links, linkCounts,
                   panel>>

ServerSlugs == {ConceptsA, ConceptsB, ProjectsC}

\* GET /api/links?slug=... arrives, with or without a slug, for a document of the
\* corpus or not
LinksGet ==
    /\ pc = "idle"
    /\ \E targetSlug \in ServerSlugs \cup {corpus[i].slug : i \in DOMAIN corpus} \cup {<<>>} :
          result' = LinksResponse(targetSlug, corpus, libLastIndex)
    /\ libLastIndex' = 0
    /\ UNCHANGED <<corpus, target, graphLastIndex, pc, docIdx, links, linkCounts, panel>>

Next ==
    \/ GraphStart
    \/ GraphReadThrow
    \/ GraphLink
    \/ GraphThrow
    \/ GraphNextDoc
    \/ GraphReturn
    \/ RepairTitle
    \/ LinksGet

Spec == Init /\ [][Next]_vars

(***************************************************************************)
(* The library's getBacklinks: the loops of the links route with a window  *)
(* of its own and a plainer cleaning of the context.                       *)
(***************************************************************************)
LibContextWindow == 50

\* lines 125-132
getBacklinksContext(content, link) ==
    LET contextStart == Max(0, link.startIndex - LibContextWindow)
        contextEnd == Min(Len(content), link.endIndex + LibContextWindow)
        cut == Slice(content, contextStart, contextEnd)
        led == IF contextStart > 0 THEN <<".",".",".">> \o cut ELSE cut
        trailed == IF contextEnd < Len(content) THEN led \o <<".",".",".">> ELSE led
        spaced == [i \in DOMAIN trailed |-> IF trailed[i] = "\n" THEN " " ELSE trailed[i]]
    IN  Trim(spaced)

\* lines 119-141 for one document
getBacklinksFirst(doc, targetSlug, targetTitle, ls) ==
    LET pool == <<Doc(targetSlug, targetTitle, <<>>)>>
        k == FindIndex({i \in DOMAIN ls : resolveWikiLink(ls[i].target, pool) # Null})
    IN  IF k = 0 THEN Null
        ELSE IF resolveWikiLink(ls[k].target, pool) = Throw THEN Throw
        ELSE [kind |-> "backlink", slug |-> doc.slug, title |-> doc.title,
              context |-> getBacklinksContext(doc.content, ls[k])]

\* line 117: the document's links are extracted once
getBacklinksOf(doc, targetSlug, targetTitle, lastIndex) ==
    CHOOSE b \in { getBacklinksFirst(doc, targetSlug, targetTitle, ls) :
                   ls \in {extractWikiLinks(doc.content, lastIndex)} } : TRUE

\* lines 113-142
RECURSIVE getBacklinksLoop(_, _, _, _)
getBacklinksLoop(docs, targetSlug, targetTitle, lastIndex) ==
    IF docs = <<>> THEN <<>>
    ELSE IF Head(docs).slug = targetSlug
         THEN getBacklinksLoop(Tail(docs), targetSlug, targetTitle, lastIndex)
         ELSE SelectSeq(<<getBacklinksOf(Head(docs), targetSlug, targetTitle, lastIndex)>>,
                        LAMBDA b : b # Null)
              \o getBacklinksLoop(Tail(docs), targetSlug, targetTitle, 0)

LibAnswer(targetSlug, backlinks) ==
    IF \E i \in DOMAIN backlinks : backlinks[i] = Throw
    THEN [op |-> "getBacklinks", kind |-> "throw", slug |-> targetSlug]
    ELSE [op |-> "getBacklinks", kind |-> "ok", slug |-> targetSlug,
          backlinks |-> backlinks]

\* lines 106-145: the list, or the TypeError of a resolveWikiLink
getBacklinks(targetSlug, targetTitle, docs, lastIndex) ==
    CHOOSE answer \in
        { LibAnswer(targetSlug, backlinks) :
            backlinks \in {getBacklinksLoop(docs, targetSlug, targetTitle, lastIndex)} } : TRUE

(***************************************************************************)
(* The backlinks route over the database: GET /api/backlinks?slug=...      *)
(* A row's category is the first segment of its slug.                      *)
(***************************************************************************)
Category(slug) ==
    LET cuts == {i \in DOMAIN slug : slug[i] = "/"}
    IN  IF cuts = {} THEN slug
        ELSE Slice(slug, 0, (CHOOSE i \in cuts : \A j \in cuts : i <= j) - 1)

\* the targets of the links of a content
LinkTargets(content, lastIndex) ==
    UNION { {ls[k].target : k \in DOMAIN ls} :
              ls \in {extractWikiLinks(content, lastIndex)} }

\* line 27: links.some(...)
DbLinksTo(doc, targetSlug, lastIndex) ==
    \E t \in LinkTargets(doc.content, lastIndex) :
        \/ t = targetSlug
        \/ Category(doc.slug) \o <<"/">> \o t = targetSlug

\* lines 25-35
DbBacklinks(targetSlug, docs, lastIndex) ==
    LET hits == SelectSeq(docs, LAMBDA doc : DbLinksTo(doc, targetSlug, lastIndex))
    IN  [i \in DOMAIN hits |-> [slug |-> hits[i].slug, title |-> hits[i].title,
                                category |-> Category(hits[i].slug)]]

\* lines 5-45
DbResponse(targetSlug, docs, failed, lastIndex) ==
    IF targetSlug = <<>> THEN [op |-> "backlinks", kind |-> "error", status |-> 400]
    ELSE IF failed THEN ServerError("backlinks")
    ELSE [op |-> "backlinks", kind |-> "ok", slug |-> targetSlug,
          backlinks |-> DbBacklinks(targetSlug, docs, lastIndex)]

(***************************************************************************)
(* The runs of the backlinks and outlinks derivations: the links route,    *)
(* the library function and the database route over the same corpora.      *)
(* The corpora have a journal file without heading, whose derived title is *)
(* empty, and a content longer than the context window.                    *)
(***************************************************************************)
Padding == Repeat(<<"x">>, ContextWindow + 1)

LongTwice ==
    Link(<<"z","z","z">>) \o <<" ">> \o Link(<<"b">>) \o Padding \o Link(<<"B">>)
        \o <<" ">> \o Link(<<"c">>)

DateAndZzz == Link(DateTarget) \o <<" ">> \o Link(<<"z","z","z">>)

LinksDocs ==
    {Doc(ConceptsA, StringTitle(<<"A","n","t">>), c) : c \in {SelfLink, TwiceB, LongTwice}}
    \cup {Doc(ConceptsB, t, c) : t \in {StringTitle(<<"B","e","e">>), OtherTitle},
                                 c \in {<<>>, TwiceZzz}}
    \cup {Doc(ProjectsC, StringTitle(<<"C","a","t">>), c) : c \in {<<>>, BAndZzz, DateAndZzz}}
    \cup {Doc(JournalsDate, StringTitle(<<>>), <<>>)}

ConceptsDopamine == <<"c","o","n","c","e","p","t","s","/","d","o","p","a","m","i","n","e">>

ConceptsSerotonin == <<"c","o","n","c","e","p","t","s","/","s","e","r","o","t","o","n","i",
      "n">>

DopamineContent == <<"S","e","e"," ","[","[","D","o","p","a","m","i","n","e","]","]"," ","a",
      "n","d"," ","[","[","s","e","r","o","t","o","n","i","n","]","]",
      ".">>

DopamineCorpus ==
    << Doc(ConceptsDopamine, StringTitle(<<"D","o","p","a","m","i","n","e">>), DopamineContent),
       Doc(ConceptsSerotonin, StringTitle(<<"S","e","r","o","t","o","n","i","n">>), <<>>) >>

InitLinks ==
    /\ corpus \in CorporaOf(LinksDocs, MaxFiles) \cup {DopamineCorpus}
    /\ target = <<>>
    /\ result = NoResult
    /\ Idle

\* a call of the library's getBacklinks for a document of the corpus
CallGetBacklinks ==
    /\ pc = "idle"
    /\ \E i \in DOMAIN corpus :
          result' = getBacklinks(corpus[i].slug, corpus[i].title, corpus, libLastIndex)
    /\ libLastIndex' = 0
    /\ UNCHANGED <<corpus, target, graphLastIndex, pc, docIdx, links, linkCounts, panel>>

\* GET /api/backlinks?slug=... arrives; the database answers or fails
BacklinksGet ==
    /\ pc = "idle"
    /\ \E targetSlug \in {corpus[i].slug : i \in DOMAIN corpus} \cup {<<>>}, failed \in BOOLEAN :
          result' = DbResponse(targetSlug, corpus, failed, libLastIndex)
    /\ libLastIndex' = 0
    /\ UNCHANGED <<corpus, target, graphLastIndex, pc, docIdx, links, linkCounts, panel>>

NextLinks == LinksGet \/ CallGetBacklinks \/ BacklinksGet

SpecLinks == InitLinks /\ [][NextLinks]_vars

(***************************************************************************)
(* processWikiLinks of the document viewer: every link of the content      *)
(* becomes a markdown link with the scheme wikilink://, and linkMap says   *)
(* for each marker where it leads.                                         *)
(***************************************************************************)
Digits == <<"0","1","2","3","4","5","6","7","8","9">>

\* the decimal form a template literal gives a number
RECURSIVE Decimal(_)
Decimal(n) ==
    IF n < 10 THEN <<Digits[n + 1]>>
    ELSE Decimal(n \div 10) \o <<Digits[(n % 10) + 1]>>

\* line 541
MarkerId(i) == <<"w","i","k","i","l","i","n","k","-">> \o Decimal(i)

\* line 540: link.alias || (resolved?.title || link.target)
DisplayText(link, resolved) ==
    IF link.alias # <<>> THEN StringTitle(link.alias)
    ELSE IF resolved # Null /\ Truthy(resolved.doc.title) THEN resolved.doc.title
    ELSE StringTitle(link.target)

\* lines 543-547
MapEntry(link, resolved) ==
    [ target |-> IF resolved # Null /\ resolved.doc.slug # <<>>
                 THEN resolved.doc.slug ELSE link.target,
      exists |-> resolved # Null,
      title |-> DisplayText(link, resolved) ]

\* Map.prototype.set
MapSet(map, key, value) ==
    [k \in DOMAIN map \cup {key} |-> IF k = key THEN value ELSE map[k]]

\* line 550
Replacement(link, resolved, i) ==
    <<"[">> \o DisplayText(link, resolved).chars
        \o <<"]","(","w","i","k","i","l","i","n","k",":","/","/">> \o MarkerId(i) \o <<")">>

\* the loop taken from the first link to the last, with the indices of the
\* original content
RECURSIVE ProcessForward(_, _, _, _, _)
ProcessForward(processed, ls, n, docs, map) ==
    IF n > Len(ls)
    THEN [kind |-> "ok", processedContent |-> processed, linkMap |-> map]
    ELSE CHOOSE r \in
            { IF resolved = Throw THEN [kind |-> "throw"]
              ELSE ProcessForward(
                       Slice(processed, 0, ls[n].startIndex)
                           \o Replacement(ls[n], resolved, n - 1)
                           \o Slice(processed, ls[n].endIndex, Len(processed)),
                       ls, n + 1, docs, MapSet(map, MarkerId(n - 1), MapEntry(ls[n], resolved)))
              : resolved \in {resolveWikiLink(ls[n].target, docs)} } : TRUE

processWikiLinks_Forward(content, docs, lastIndex) ==
    ProcessForward(content, extractWikiLinks(content, lastIndex), 1, docs, <<>>)

\* lines 536-555: the loop from the last link to the first; n is i + 1
RECURSIVE ProcessLoop(_, _, _, _, _)
ProcessLoop(processed, ls, n, docs, map) ==
    IF n = 0
    THEN [kind |-> "ok", processedContent |-> processed, linkMap |-> map]
    ELSE CHOOSE r \in
            { IF resolved = Throw THEN [kind |-> "throw"]
              ELSE ProcessLoop(
                       Slice(processed, 0, ls[n].startIndex)
                           \o Replacement(ls[n], resolved, n - 1)
                           \o Slice(processed, ls[n].endIndex, Len(processed)),
                       ls, n - 1, docs, MapSet(map, MarkerId(n - 1), MapEntry(ls[n], resolved)))
              : resolved \in {resolveWikiLink(ls[n].target, docs)} } : TRUE

\* lines 526-558: the processed content and the map, or the TypeError of a
\* resolveWikiLink
processWikiLinks(content, docs, lastIndex) ==
    CHOOSE r \in { ProcessLoop(content, ls, Len(ls), docs, <<>>) :
                   ls \in {extractWikiLinks(content, lastIndex)} } : TRUE

(***************************************************************************)
(* The runs of the users of the library's regex, called one after the      *)
(* other on contents pieced together from fragments of links.              *)
(***************************************************************************)
Fragments ==
    { Link(<<"a">>), Link(<<"a"," ","|","b">>), <<"[","[","a">>, <<"[","[">>,
      <<"]","]">> }

RECURSIVE Pieced(_)
Pieced(n) ==
    IF n = 0 THEN {<<>>} ELSE {c \o f : c \in Pieced(n - 1), f \in Fragments}

ExtractContents == UNION {Pieced(n) : n \in 0..MaxPieces}

ExtractCorpora ==
    { <<Doc(<<"c","o","n","c","e","p","t","s","/","a">>, StringTitle(<<"A","n","t">>), <<>>)>>,
      <<Doc(<<"c","o","n","c","e","p","t","s","/","a">>, OtherTitle, <<>>)>> }

InitExtract ==
    /\ corpus \in ExtractCorpora
    /\ target = <<>>
    /\ result = NoResult
    /\ Idle

\* a call of extractWikiLinks on some content
CallExtractWikiLinks ==
    /\ \E content \in ExtractContents :
          /\ target' = content
          /\ result' = [op |-> "extractWikiLinks", prev |-> result.op,
                        links |-> extractWikiLinks(content, libLastIndex)]
          /\ libLastIndex' = CursorAfterExtract(content, libLastIndex)
    /\ UNCHANGED <<corpus, graphLastIndex, pc, docIdx, links, linkCounts, panel>>

\* a call of replaceWikiLinks on some content, with the documents of the corpus
CallReplaceWikiLinks ==
    /\ \E content \in ExtractContents :
          /\ target' = content
          /\ result' = [op |-> "replaceWikiLinks", prev |-> result.op,
                        value |-> replaceWikiLinks(content, corpus)]
          /\ libLastIndex' = CursorAfterReplace(content, libLastIndex)
    /\ UNCHANGED <<corpus, graphLastIndex, pc, docIdx, links, linkCounts, panel>>

NextExtract == CallExtractWikiLinks \/ CallReplaceWikiLinks

SpecExtract == InitExtract /\ [][NextExtract]_vars

(***************************************************************************)
(* The runs of the document viewer: it renders one content after another   *)
(* with a corpus that has a document for the links, has none, or has one   *)
(* whose title is no string.                                               *)
(***************************************************************************)
ProcessCorpora ==
    ExtractCorpora \cup
    { <<Doc(ConceptsB, StringTitle(<<"B","e","e">>), <<>>)>>,
      <<Doc(ConceptsB, OtherTitle, <<>>)>> }

InitProcess ==
    /\ corpus \in ProcessCorpora
    /\ target = <<>>
    /\ result = NoResult
    /\ Idle

\* the viewer renders some content: processWikiLinks with the documents
CallProcessWikiLinks ==
    /\ \E content \in ExtractContents :
          /\ target' = content
          /\ result' = [op |-> "processWikiLinks", prev |-> result.op,
                        value |-> processWikiLinks(content, corpus, libLastIndex)]
          /\ libLastIndex' = CursorAfterExtract(content, libLastIndex)
    /\ UNCHANGED <<corpus, graphLastIndex, pc, docIdx, links, linkCounts, panel>>

NextProcess == CallProcessWikiLinks

SpecProcess == InitProcess /\ [][NextProcess]_vars

(***************************************************************************)
(* What the resolver claims are stated with: which rule a document         *)
(* satisfies for the target of the call.  A title that is no string        *)
(* satisfies neither title rule.                                           *)
(***************************************************************************)
RuleMatches(k, d, t) ==
    CASE k = 1 -> SlugMatches(d, normalizeWikiTarget(t))
      [] k = 2 -> FilenameMatches(d, t, normalizeWikiTarget(t))
      [] k = 3 -> TitleMatches(d, t)
      [] k = 4 -> FuzzyMatches(d, t)

WellTyped(docs) == \A i \in DOMAIN docs : ~TitleThrows(docs[i])

Resolved == result.op = "resolveWikiLink"

(***************************************************************************)
(* C2: an exact slug match has absolute priority: when a document's slug   *)
(* equals the normalised target, resolveWikiLink returns that document,    *)
(* wherever it stands in the corpus and whatever the file names and titles *)
(* of the other documents are.                                             *)
(***************************************************************************)
C2_ExactSlugWins ==
    Resolved =>
        \A i \in DOMAIN corpus :
            corpus[i].slug = normalizeWikiTarget(target) => result.value = Found(corpus[i])

\* the exact match stands second, behind a document whose title the target contains
C2_Witness ==
    /\ Resolved
    /\ Len(corpus) = 2
    /\ corpus[2].slug = normalizeWikiTarget(target)
    /\ target # corpus[2].slug
    /\ FuzzyMatches(corpus[1], target)
    /\ result.value = Found(corpus[2])

(***************************************************************************)
(* C3: the cascade: a call that returns, returns the first document, in    *)
(* corpus order, that satisfies the earliest rule any document satisfies   *)
(* (null when no rule is satisfied); a document that only a later rule     *)
(* matches is never returned, even when it stands first.  On a corpus      *)
(* whose titles are all strings the call always returns.                   *)
(***************************************************************************)
C3_CascadeOrder ==
    Resolved =>
        LET ranks == {k \in 1..4 : \E i \in DOMAIN corpus : RuleMatches(k, corpus[i], target)}
            rank == CHOOSE k \in ranks : \A l \in ranks : k <= l
            hits == {i \in DOMAIN corpus : RuleMatches(rank, corpus[i], target)}
            first == CHOOSE i \in hits : \A j \in hits : i <= j
        IN  /\ WellTyped(corpus) => result.value # Throw
            /\ result.value # Throw =>
                  result.value = IF ranks = {} THEN Null ELSE Found(corpus[first])

\* the precedence example of the specification, in the order that puts the title
\* coincidence first
C3_Witness ==
    /\ Resolved
    /\ target = <<"f","o","o">>
    /\ corpus = << Doc(ConceptsBar, StringTitle(<<"F","o","o">>), <<>>),
                   Doc(ConceptsFoo, StringTitle(<<"B","a","r">>), <<>>) >>
    /\ result.value = Found(corpus[2])

(***************************************************************************)
(* C4: a call that returns, returns null exactly when no document          *)
(* satisfies any of the four rules, and a document it returns is an        *)
(* element of the list it was given (for findDocumentSlug: the slug of     *)
(* one).                                                                   *)
(***************************************************************************)
C4_NullIffNoMatch ==
    LET none == \A i \in DOMAIN corpus : \A k \in 1..4 : ~RuleMatches(k, corpus[i], target)
    IN  result.op \in {"resolveWikiLink", "findDocumentSlug"} =>
            /\ result.value # Throw => (result.value = Null <=> none)
            /\ result.value.kind = "doc" => \E i \in DOMAIN corpus : corpus[i] = result.value.doc
            /\ result.value.kind = "slug" =>
                  \E i \in DOMAIN corpus : corpus[i].slug = result.value.slug

\* null on a corpus that is not empty
C4_Witness ==
    /\ Resolved
    /\ Len(corpus) = 2
    /\ result.value = Null


(***************************************************************************)
(* What the graph claims are stated with.                                  *)
(***************************************************************************)
GraphOk == result.op = "graph" /\ result.kind = "ok"

\* the links a scan of document i from offset 0 finds
LinksOf(i) == extractWikiLinks(corpus[i].content, 0)

\* some link of document i resolves to document j
LinksTo(i, j) ==
    \E k \in DOMAIN LinksOf(i) :
        findDocumentSlug(LinksOf(i)[k].target, corpus) = FoundSlug(corpus[j].slug)

EdgesJoining(ls, a, b) ==
    {k \in DOMAIN ls : {ls[k].source, ls[k].target} = {a, b}}

EdgesAt(ls, a) == {k \in DOMAIN ls : ls[k].source = a \/ ls[k].target = a}

RECURSIVE SumLinkCounts(_)
SumLinkCounts(nodes) ==
    IF nodes = <<>> THEN 0 ELSE Head(nodes).linkCount + SumLinkCounts(Tail(nodes))

(***************************************************************************)
(* C5: in the graph a request returns for a corpus whose titles are all    *)
(* strings, two distinct documents are joined by exactly one edge when a   *)
(* link of either resolves to the other, and by none otherwise.            *)
(***************************************************************************)
C5_OneEdgePerLinkedPair ==
    (GraphOk /\ WellTyped(corpus)) =>
        \A i, j \in DOMAIN corpus :
            i # j =>
                Cardinality(EdgesJoining(result.links, corpus[i].slug, corpus[j].slug))
                    = IF LinksTo(i, j) \/ LinksTo(j, i) THEN 1 ELSE 0

(***************************************************************************)
(* C6: a link that resolves to the document containing it adds no edge     *)
(* and changes no counter, and no edge ever has its source as its target.  *)
(***************************************************************************)
SelfLinkNext ==
    /\ pc = "scan"
    /\ docIdx <= Len(corpus)
    /\ LET m == RegexExec(corpus[docIdx].content, graphLastIndex)
       IN  /\ m.found
           /\ findDocumentSlug(Trim(m.group1), corpus) = FoundSlug(corpus[docIdx].slug)

NoSelfEdge ==
    /\ \A k \in DOMAIN links : links[k].source # links[k].target
    /\ GraphOk => \A k \in DOMAIN result.links : result.links[k].source # result.links[k].target

C6_SelfLinkExcluded ==
    /\ []NoSelfEdge
    /\ [][SelfLinkNext => (links' = links /\ linkCounts' = linkCounts)]_vars

\* a self link has just been passed: the scan of a document stands behind a link
\* that resolves to the document, in a request that started at offset 0
C6_Witness ==
    /\ pc = "scan"
    /\ result.startedAt = 0
    /\ docIdx <= Len(corpus)
    /\ \E k \in DOMAIN LinksOf(docIdx) :
          /\ LinksOf(docIdx)[k].endIndex = graphLastIndex
          /\ findDocumentSlug(LinksOf(docIdx)[k].target, corpus) = FoundSlug(corpus[docIdx].slug)

(***************************************************************************)
(* C7: every node's linkCount is the number of edges of the returned list  *)
(* that touch the node, and the linkCounts add up to twice the number of   *)
(* edges.                                                                  *)
(***************************************************************************)
C7_LinkCountIsDegree ==
    GraphOk =>
        /\ \A i \in DOMAIN result.nodes :
              result.nodes[i].linkCount
                  = Cardinality(EdgesAt(result.links, result.nodes[i].id))
        /\ SumLinkCounts(result.nodes) = 2 * Len(result.links)

(***************************************************************************)
(* C8: the node list has one node per document, in corpus order, its id    *)
(* the document's slug, documents without edges included; one document     *)
(* without links gives one node of linkCount 0 and size 4 and no edge.     *)
(***************************************************************************)
C8_OneNodePerDocument ==
    GraphOk =>
        /\ Len(result.nodes) = Len(corpus)
        /\ \A i \in DOMAIN corpus : result.nodes[i].id = corpus[i].slug
        /\ (Len(corpus) = 1 /\ LinksOf(1) = <<>>) =>
              /\ result.nodes[1].linkCount = 0
              /\ result.nodes[1].size = 4
              /\ result.links = <<>>

\* a graph with an edge and a node no edge touches
C8_Witness ==
    /\ GraphOk
    /\ result.links # <<>>
    /\ \E i \in DOMAIN result.nodes :
          /\ result.nodes[i].linkCount = 0
          /\ EdgesAt(result.links, result.nodes[i].id) = {}

(***************************************************************************)
(* C9: a node's size is 4 + 2 * linkCount kept within 4..20: 4 for no      *)
(* link, 20 from 8 links on, and never smaller for a node with more links. *)
(***************************************************************************)
C9_NodeSizeClamped ==
    GraphOk =>
        \A i \in DOMAIN result.nodes :
            LET n == result.nodes[i]
            IN  /\ n.size \in 4..20
                /\ n.linkCount = 0 => n.size = 4
                /\ n.linkCount < 8 => n.size = 4 + 2 * n.linkCount
                /\ n.linkCount >= 8 => n.size = 20
                /\ \A j \in DOMAIN result.nodes :
                      n.linkCount <= result.nodes[j].linkCount => n.size <= result.nodes[j].size

\* a node with more than 8 links beside one with fewer
C9_Witness ==
    /\ GraphOk
    /\ \E i, j \in DOMAIN result.nodes :
          /\ result.nodes[i].linkCount > 8
          /\ result.nodes[i].size = 20
          /\ result.nodes[j].linkCount \in 1..7


(***************************************************************************)
(* C10: the outlinks of a document are one entry per distinct lower-cased  *)
(* target among the links extracted from it, each built from the first     *)
(* link with that target, in the order of those first links.               *)
(***************************************************************************)
LinksOk == result.op = "links" /\ result.kind = "ok"

SlugIndex(slug) == FindIndex({i \in DOMAIN corpus : corpus[i].slug = slug})

C10_OutlinksDistinct ==
    (LinksOk /\ SlugIndex(result.slug) # 0) =>
        LET ls == LinksOf(SlugIndex(result.slug))
            firsts == {k \in DOMAIN ls :
                          \A j \in 1..(k - 1) :
                              ToLowerCase(ls[j].target) # ToLowerCase(ls[k].target)}
            nth(n) == CHOOSE k \in firsts : Cardinality({j \in firsts : j <= k}) = n
        IN  /\ Len(result.outlinks)
                  = Cardinality({ToLowerCase(ls[k].target) : k \in DOMAIN ls})
            /\ \A n \in DOMAIN result.outlinks :
                  result.outlinks[n] = OutlinkEntry(ls[nth(n)].target, corpus)

\* two links whose targets differ only in case gave one entry, written as the first
C10_Witness ==
    /\ LinksOk
    /\ SlugIndex(result.slug) # 0
    /\ LET ls == LinksOf(SlugIndex(result.slug))
       IN  /\ Len(ls) = 3
           /\ Len(result.outlinks) = 2
           /\ ls[1].target # ls[2].target
           /\ result.outlinks[1].slug = ls[1].target
           /\ ~result.outlinks[1].exists


(***************************************************************************)
(* C11: an outlink whose target resolves to no document is emitted with    *)
(* exists false and the raw target as slug and title; an outlink has       *)
(* exists true exactly when resolveWikiLink on the corpus gave a document, *)
(* and its slug and title are then that document's.                        *)
(***************************************************************************)
\* the links of ls whose lower-cased target no earlier link has, in order
FirstOccurrences(ls) ==
    LET firsts == {k \in DOMAIN ls :
                      \A j \in 1..(k - 1) :
                          ToLowerCase(ls[j].target) # ToLowerCase(ls[k].target)}
        nth(n) == CHOOSE k \in firsts : Cardinality({j \in firsts : j <= k}) = n
    IN  [n \in 1..Cardinality(firsts) |-> ls[nth(n)]]

C11_OutlinkOfResolution ==
    (LinksOk /\ SlugIndex(result.slug) # 0) =>
        LET firsts == FirstOccurrences(LinksOf(SlugIndex(result.slug)))
        IN  /\ Len(result.outlinks) = Len(firsts)
            /\ \A n \in DOMAIN result.outlinks :
                  LET e == result.outlinks[n]
                      t == firsts[n].target
                      r == resolveWikiLink(t, corpus)
                  IN  /\ e.exists <=> r.kind = "doc"
                      /\ ~e.exists => (e.slug = t /\ e.title = StringTitle(t))
                      /\ e.exists => (e.slug = r.doc.slug /\ e.title = r.doc.title)

(***************************************************************************)
(* C12: the outlinks keep the links of a document to itself: a link of the *)
(* requested document that resolves to that document has an entry with    *)
(* exists true; the outlinks of concepts/dopamine in the two-document      *)
(* corpus of the example are concepts/dopamine, then concepts/serotonin.   *)
(***************************************************************************)
C12_SelfOutlinkKept ==
    (LinksOk /\ SlugIndex(result.slug) # 0) =>
        /\ \A k \in DOMAIN LinksOf(SlugIndex(result.slug)) :
              resolveWikiLink(LinksOf(SlugIndex(result.slug))[k].target, corpus)
                    = Found(corpus[SlugIndex(result.slug)])
                 => \E n \in DOMAIN result.outlinks :
                       /\ result.outlinks[n].exists
                       /\ result.outlinks[n].slug = result.slug
        /\ (corpus = DopamineCorpus /\ result.slug = ConceptsDopamine) =>
              /\ Len(result.outlinks) = 2
              /\ result.outlinks[1].slug = ConceptsDopamine
              /\ result.outlinks[1].exists
              /\ result.outlinks[2].slug = ConceptsSerotonin
              /\ result.outlinks[2].exists

\* the outlinks of concepts/dopamine in the example have been answered
C12_Witness ==
    /\ LinksOk
    /\ corpus = DopamineCorpus
    /\ result.slug = ConceptsDopamine
    /\ result.outlinks # <<>>
    /\ result.outlinks[1].slug = result.slug

(***************************************************************************)
(* C13: in a corpus whose titles are non-empty strings, a document other   *)
(* than the requested one is among the backlinks exactly when one of its   *)
(* links resolves to the requested document against the whole corpus.      *)
(***************************************************************************)
BacklinksOk == result.op \in {"links", "getBacklinks"} /\ result.kind = "ok"

ProperTitles(docs) ==
    \A i \in DOMAIN docs : docs[i].title.type = "string" /\ docs[i].title.chars # <<>>

C13_ScopedIsFullResolution ==
    (BacklinksOk /\ SlugIndex(result.slug) # 0 /\ ProperTitles(corpus)) =>
        \A i \in DOMAIN corpus :
            i # SlugIndex(result.slug) =>
                ((\E n \in DOMAIN result.backlinks : result.backlinks[n].slug = corpus[i].slug)
                    <=> \E k \in DOMAIN LinksOf(i) :
                           resolveWikiLink(LinksOf(i)[k].target, corpus)
                               = Found(corpus[SlugIndex(result.slug)]))

(***************************************************************************)
(* C14: the backlinks are a subsequence of the corpus without repetition:  *)
(* a referring document has one entry however many of its links point at   *)
(* the requested document, the entry is made from the first of those       *)
(* links, and the entries stand in corpus order.                           *)
(***************************************************************************)
\* the links of document i that point at document t when resolved against it alone
PointingLinks(i, t) ==
    {k \in DOMAIN LinksOf(i) :
        resolveWikiLink(LinksOf(i)[k].target,
                        <<Doc(corpus[t].slug, corpus[t].title, <<>>)>>) # Null}

ContextFor(op, content, link) ==
    IF op = "links" THEN BacklinkContext(content, link)
    ELSE getBacklinksContext(content, link)

C14_BacklinksSubsequence ==
    (BacklinksOk /\ SlugIndex(result.slug) # 0) =>
        /\ \A n \in DOMAIN result.backlinks : SlugIndex(result.backlinks[n].slug) # 0
        /\ \A n, m \in DOMAIN result.backlinks :
              n < m => SlugIndex(result.backlinks[n].slug) < SlugIndex(result.backlinks[m].slug)
        /\ \A n \in DOMAIN result.backlinks :
              LET i == SlugIndex(result.backlinks[n].slug)
                  hits == PointingLinks(i, SlugIndex(result.slug))
              IN  /\ hits # {}
                  /\ result.backlinks[n].title = corpus[i].title
                  /\ result.backlinks[n].context
                        = ContextFor(result.op, corpus[i].content,
                                     LinksOf(i)[FindIndex(hits)])

\* two referring documents, the first with two links at the requested document
\* whose contexts differ, the earlier of them not the first link of its document
C14_Witness ==
    /\ BacklinksOk
    /\ SlugIndex(result.slug) # 0
    /\ Len(result.backlinks) = 2
    /\ LET i == SlugIndex(result.backlinks[1].slug)
           hits == PointingLinks(i, SlugIndex(result.slug))
       IN  /\ Cardinality(hits) = 2
           /\ 1 \notin hits
           /\ \E k \in hits :
                 ContextFor(result.op, corpus[i].content, LinksOf(i)[k])
                     # result.backlinks[1].context

(***************************************************************************)
(* C15: the backlinks answered for a document never hold that document,    *)
(* whether the library function, the links route or the database route     *)
(* made them.                                                              *)
(***************************************************************************)
C15_NoSelfBacklink ==
    (result.op \in {"links", "getBacklinks", "backlinks"} /\ result.kind = "ok") =>
        \A n \in DOMAIN result.backlinks : result.backlinks[n].slug # result.slug

(***************************************************************************)
(* C16: whatever calls of extractWikiLinks and replaceWikiLinks came       *)
(* before, the library's regex stands at 0 when a call starts, so that     *)
(* extractWikiLinks returns the links of a scan from offset 0, and two     *)
(* calls in a row on the same content return the same list.                *)
(***************************************************************************)
Extracted == result.op = "extractWikiLinks"

C16_ExtractionStateless ==
    /\ [](libLastIndex = 0)
    /\ [](Extracted => result.links = ExecLoop(target, 0))
    /\ [][(Extracted /\ Extracted' /\ target' = target) => result'.links = result.links]_vars

\* a call that found two links, made after a call of replaceWikiLinks
C16_Witness ==
    /\ Extracted
    /\ result.prev = "replaceWikiLinks"
    /\ Len(result.links) = 2
    /\ libLastIndex = 0

(***************************************************************************)
(* C18: every occurrence has 0 <= startIndex < endIndex <= length, its raw *)
(* is the content between the two, begins with [[ and ends with ]], and    *)
(* its target has no ] and no |; the occurrences come with increasing      *)
(* startIndex and do not overlap; a content that is empty or has no ]]     *)
(* has no occurrence.                                                      *)
(***************************************************************************)
C18_OccurrencesWellFormed ==
    Extracted =>
        /\ \A k \in DOMAIN result.links :
              LET l == result.links[k]
              IN  /\ 0 <= l.startIndex
                  /\ l.startIndex < l.endIndex
                  /\ l.endIndex <= Len(target)
                  /\ l.raw = Slice(target, l.startIndex, l.endIndex)
                  /\ Slice(l.raw, 0, 2) = <<"[","[">>
                  /\ Slice(l.raw, Len(l.raw) - 2, Len(l.raw)) = <<"]","]">>
                  /\ \A i \in DOMAIN l.target : l.target[i] \notin {"]", "|"}
                  /\ k > 1 => /\ result.links[k - 1].startIndex < l.startIndex
                              /\ result.links[k - 1].endIndex <= l.startIndex
        /\ ~Includes(target, <<"]","]">>) => result.links = <<>>

\* two occurrences side by side, one of them with an alias
C18_Witness ==
    /\ Extracted
    /\ Len(result.links) = 2
    /\ result.links[2].startIndex = result.links[1].endIndex
    /\ \E k \in DOMAIN result.links : result.links[k].hasAlias

(***************************************************************************)
(* C17: normalizeWikiTarget takes the first rule that applies: a target    *)
(* with "/" comes back lower-cased and trimmed; else a target of the form  *)
(* YYYY-MM-DD comes back behind "journals/"; else it is lower-cased, its   *)
(* characters other than word characters, whitespace and hyphens are       *)
(* removed and every run of whitespace becomes one hyphen.                 *)
(***************************************************************************)
Normalized == result.op = "normalizeWikiTarget"

SlugChars == WordChars \cup SpaceChars \cup {"-"}

WithoutHyphens(s) == SelectSeq(s, LAMBDA c : c # "-")

Hyphens(s) == Cardinality({i \in DOMAIN s : s[i] = "-"})

\* the whitespace runs of what is left of t when the other characters are removed
SpaceRuns(t) ==
    LET kept == SelectSeq(t, LAMBDA c : c \in SlugChars)
    IN  Cardinality({i \in DOMAIN kept :
                        /\ kept[i] \in SpaceChars
                        /\ i = 1 \/ kept[i - 1] \notin SpaceChars})

C17_NormalizeRules ==
    Normalized =>
        LET v == result.value
        IN  /\ Includes(target, <<"/">>) => v = Trim(ToLowerCase(target))
            /\ (~Includes(target, <<"/">>) /\ IsDatePattern(target)) =>
                  v = JournalsPrefix \o target
            /\ (~Includes(target, <<"/">>) /\ ~IsDatePattern(target)) =>
                  /\ \A i \in DOMAIN v : v[i] \in (WordChars \ UpperChars) \cup {"-"}
                  /\ WithoutHyphens(v)
                        = SelectSeq(ToLowerCase(target), LAMBDA c : c \in WordChars)
                  /\ Hyphens(v) = Hyphens(target) + SpaceRuns(target)
            /\ target = DateTarget => v = JournalsDate
            /\ target = SecondBrainTarget =>
                  v = <<"s","e","c","o","n","d","-","b","r","a","i","n","-",
                        "s","y","s","t","e","m">>

\* the third rule has removed a character and written a hyphen for a run
C17_Witness ==
    /\ Normalized
    /\ target = SecondBrainTarget
    /\ Len(result.value) = Len(target) - 1
    /\ Hyphens(result.value) = 2

(***************************************************************************)
(* C19: a request to the graph endpoint ends with a graph over every       *)
(* document of the corpus or with an error of status 500 that carries no   *)
(* nodes and no links; a request whose reading of the files fails ends     *)
(* with the error.                                                         *)
(***************************************************************************)
GraphAnswered == result.op = "graph" /\ result.kind # "pending"

CorpusSlugs == {corpus[i].slug : i \in DOMAIN corpus}

WholeGraph ==
    /\ result.kind = "ok"
    /\ Len(result.nodes) = Len(corpus)
    /\ \A i \in DOMAIN corpus : result.nodes[i].id = corpus[i].slug
    /\ \A k \in DOMAIN result.links :
          result.links[k].source \in CorpusSlugs /\ result.links[k].target \in CorpusSlugs

BareError ==
    /\ result.kind = "error"
    /\ result.status = 500
    /\ DOMAIN result \cap {"nodes", "links"} = {}

C19_GraphAllOrNothing ==
    /\ [](GraphAnswered => (WholeGraph \/ BareError))
    /\ [][(pc = "idle" /\ pc' = "idle" /\ result'.op = "graph") => BareError']_vars

\* a request failed while reading the files of a corpus of several documents whose
\* titles are all strings
C19_Witness ==
    /\ GraphAnswered
    /\ result.kind = "error"
    /\ WellTyped(corpus)
    /\ Len(corpus) > 1

(***************************************************************************)
(* C20: with a document in the corpus whose title is no string,            *)
(* resolveWikiLink ends with an error whatever the target and the order of *)
(* the corpus are, and never returns a document or null.                   *)
(***************************************************************************)
C20_MalformedFailsFast ==
    (Resolved /\ ~WellTyped(corpus)) => result.value = Throw

(***************************************************************************)
(* C24: whenever a request to the graph endpoint begins its scan, the      *)
(* cursor of the route's regex stands at 0, also after a request that an   *)
(* exception inside the scan loop has ended.                               *)
(***************************************************************************)
C24_ScanStartsAtZero ==
    (result.op = "graph" /\ result.kind = "pending") => result.startedAt = 0

\* every link of the corpus in the order of the second pass, with its document
RECURSIVE AllLinks(_)
AllLinks(docs) ==
    IF docs = <<>> THEN <<>>
    ELSE LET ls == extractWikiLinks(Head(docs).content, 0)
         IN  [k \in DOMAIN ls |-> [source |-> Head(docs).slug, target |-> ls[k].target]]
                 \o AllLinks(Tail(docs))

\* what getGraphData answers for the documents when its regex starts at 0
RECURSIVE AloneFrom(_, _, _, _)
AloneFrom(pairs, docs, ls, lc) ==
    IF pairs = <<>>
    THEN [kind |-> "ok", nodes |-> GraphNodes(docs, lc), links |-> ls]
    ELSE CHOOSE r \in
            { IF found = Throw THEN [kind |-> "error", status |-> 500]
              ELSE IF LinkAccepted(Head(pairs).source, found)
                   THEN AloneFrom(Tail(pairs), docs,
                                  PushLink(ls, Head(pairs).source, found.slug),
                                  CountLink(lc, Head(pairs).source, found.slug))
                   ELSE AloneFrom(Tail(pairs), docs, ls, lc)
              : found \in {findDocumentSlug(Head(pairs).target, docs)} } : TRUE

GraphAlone(docs) == AloneFrom(AllLinks(docs), docs, <<>>, <<>>)

(***************************************************************************)
(* C21: a request answers what it answers when it runs alone, whatever     *)
(* requests ran before it or between its steps: the graph a request        *)
(* returns is the graph a request over the same corpus returns when the    *)
(* regex of the route was never used, and a call of the library starts and *)
(* leaves the library's regex at 0.                                        *)
(***************************************************************************)
C21_RequestsIndependent ==
    /\ libLastIndex = 0
    /\ GraphOk =>
          \E alone \in {GraphAlone(corpus)} :
              /\ alone.kind = "ok"
              /\ alone.nodes = result.nodes
              /\ alone.links = result.links

(***************************************************************************)
(* C22: the context of a backlink is the text of the referring document    *)
(* from 50 characters before the first link that points at the requested   *)
(* document to 50 characters after it, cut at the ends of the content,     *)
(* with its newlines turned into spaces, whether the library function or   *)
(* the links route made it.                                                *)
(***************************************************************************)
C22_SameWindowEverywhere ==
    (BacklinksOk /\ SlugIndex(result.slug) # 0) =>
        \A n \in DOMAIN result.backlinks :
            LET i == SlugIndex(result.backlinks[n].slug)
                hits == PointingLinks(i, SlugIndex(result.slug))
            IN  (i # 0 /\ hits # {}) =>
                    result.backlinks[n].context
                        = getBacklinksContext(corpus[i].content, LinksOf(i)[FindIndex(hits)])

(***************************************************************************)
(* C23: a backlink context begins with "..." exactly when its window       *)
(* begins after the first character of the content, and ends with "..."    *)
(* exactly when its window ends before the end of the content: the marks   *)
(* stand where text was left out, not where the window was cut at an edge  *)
(* of the content.                                                         *)
(***************************************************************************)
Ellipsis == <<".", ".", ".">>

StartsWithEllipsis(s) == Len(s) >= 3 /\ SubSeq(s, 1, 3) = Ellipsis

EndsWithEllipsis(s) == Len(s) >= 3 /\ SubSeq(s, Len(s) - 2, Len(s)) = Ellipsis

RadiusOf(op) == IF op = "links" THEN ContextWindow ELSE LibContextWindow

\* the n-th backlink of an answer with the window of the link it was made from
ContextCase(n) ==
    LET i == SlugIndex(result.backlinks[n].slug)
        link == LinksOf(i)[FindIndex(PointingLinks(i, SlugIndex(result.slug)))]
    IN  [context |-> result.backlinks[n].context,
         from |-> link.startIndex - RadiusOf(result.op),
         to |-> link.endIndex + RadiusOf(result.op),
         length |-> Len(corpus[i].content)]

ContextCases == {ContextCase(n) : n \in DOMAIN result.backlinks}

C23_EllipsisWhereTextIsLeftOut ==
    (BacklinksOk /\ SlugIndex(result.slug) # 0) =>
        \A c \in ContextCases :
            /\ StartsWithEllipsis(c.context) <=> c.from > 0
            /\ EndsWithEllipsis(c.context) <=> c.to < c.length

\* a context whose window begins inside the content and is cut at its end
C23_Witness ==
    /\ BacklinksOk
    /\ SlugIndex(result.slug) # 0
    /\ \E c \in ContextCases :
          /\ c.from > 0
          /\ c.to > c.length
          /\ StartsWithEllipsis(c.context)
          /\ ~EndsWithEllipsis(c.context)

\* the statement as the specification has it: the marks where the window was
\* clamped
C23_EllipsisWhereClamped ==
    (BacklinksOk /\ SlugIndex(result.slug) # 0) =>
        \A c \in ContextCases :
            /\ StartsWithEllipsis(c.context) <=> c.from < 0
            /\ EndsWithEllipsis(c.context) <=> c.to > c.length

(***************************************************************************)
(* C25: the fourth rule never matches through an empty string: on a corpus *)
(* whose titles are all strings, a target that no document matches by      *)
(* slug, file name or title, and that shares no text with a title (neither *)
(* holds the other, both being not empty), resolves to null.               *)
(***************************************************************************)
SharesTitleText(d, t) ==
    /\ ToLowerCase(t) # <<>>
    /\ ToLowerCase(d.title.chars) # <<>>
    /\ FuzzyMatches(d, t)

C25_NoEmptyFuzzyMatch ==
    (Resolved /\ WellTyped(corpus)) =>
        ((\A i \in DOMAIN corpus :
              /\ \A k \in 1..3 : ~RuleMatches(k, corpus[i], target)
              /\ ~SharesTitleText(corpus[i], target))
            => result.value = Null)

(***************************************************************************)
(* C26: the slug of a document resolves to that document: when the target  *)
(* is the slug of a document of the corpus, lower-case, without            *)
(* surrounding whitespace and with a slash, resolveWikiLink returns that   *)
(* document, whatever the titles and the order of the documents are.       *)
(***************************************************************************)
PlainSlug(s) ==
    /\ ToLowerCase(s) = s
    /\ Trim(s) = s
    /\ Includes(s, <<"/">>)

C26_SlugRoundTrip ==
    Resolved =>
        \A i \in DOMAIN corpus :
            (corpus[i].slug = target /\ PlainSlug(target)) => result.value = Found(corpus[i])

\* the document stands second, behind one of the same file name whose title the
\* target contains or whose title is no string
C26_Witness ==
    /\ Resolved
    /\ Len(corpus) = 2
    /\ corpus[2].slug = target
    /\ PlainSlug(target)
    /\ LastSegment(corpus[1].slug) = LastSegment(corpus[2].slug)
    /\ TitleThrows(corpus[1]) \/ FuzzyMatches(corpus[1], target)
    /\ result.value = Found(corpus[2])

(***************************************************************************)
(* C27: the graph route's copies agree with the library: when the route    *)
(* begins the scan of a document, the targets its regex will take from the *)
(* content are the targets extractWikiLinks takes from it, and for each of *)
(* them normalizeToSlug gives what normalizeWikiTarget gives and           *)
(* findDocumentSlug the slug of what resolveWikiLink gives.                *)
(***************************************************************************)
\* lines 120-122: the trimmed first groups of the matches the route's regex finds
\* from lastIndex on
RECURSIVE ScanTargets(_, _)
ScanTargets(content, lastIndex) ==
    CHOOSE found \in { IF ~m.found THEN <<>>
                       ELSE <<Trim(m.group1)>> \o ScanTargets(content, m.end) :
                       m \in {RegexExec(content, lastIndex)} } : TRUE

SlugOf(resolved) ==
    IF resolved.kind = "doc" THEN FoundSlug(resolved.doc.slug) ELSE resolved

ScanBegins ==
    /\ pc = "scan"
    /\ docIdx \in DOMAIN corpus
    /\ graphLastIndex = IF docIdx = 1 THEN result.startedAt ELSE 0

C27_RouteCopiesAgree ==
    ScanBegins =>
        \E ls \in {extractWikiLinks(corpus[docIdx].content, libLastIndex)} :
            /\ ScanTargets(corpus[docIdx].content, graphLastIndex)
                  = [k \in DOMAIN ls |-> ls[k].target]
            /\ \A k \in DOMAIN ls :
                  /\ normalizeToSlug(ls[k].target) = normalizeWikiTarget(ls[k].target)
                  /\ findDocumentSlug(ls[k].target, corpus)
                        = SlugOf(resolveWikiLink(ls[k].target, corpus))

(***************************************************************************)
(* C28: for a corpus and a requested slug, the route over the database and *)
(* the route over the files name the same referring documents: the slugs   *)
(* in the backlinks of the one are the slugs in the backlinks of the       *)
(* other.                                                                  *)
(***************************************************************************)
SlugsOf(backlinks) == {backlinks[n].slug : n \in DOMAIN backlinks}

C28_RoutesAgree ==
    (result.op = "backlinks" /\ result.kind = "ok") =>
        \E files \in {LinksResponse(result.slug, corpus, 0)} :
            files.kind = "ok" => SlugsOf(result.backlinks) = SlugsOf(files.backlinks)

(***************************************************************************)
(* C29: a call of processWikiLinks that returns gives the content with     *)
(* occurrence i, in the order of extraction, replaced by                   *)
(* "[display](wikilink://wikilink-i)" and everything between the           *)
(* occurrences as it was; linkMap has one entry per occurrence, under      *)
(* wikilink-i, with exists true exactly when the target of the occurrence  *)
(* resolves and with the resolved slug, or else the target, as its target. *)
(***************************************************************************)
Processed == result.op = "processWikiLinks" /\ result.value.kind = "ok"

\* the marker of occurrence k (the k-th of the extraction, numbered k - 1) with
\* the display text the map has for it
MarkerOf(map, k) ==
    <<"[">> \o map[MarkerId(k - 1)].title.chars \o <<"]","(">>
        \o <<"w","i","k","i","l","i","n","k",":","/","/">> \o MarkerId(k - 1) \o <<")">>

\* the content from offset from on, the occurrences k, k + 1, ... replaced
RECURSIVE Spliced(_, _, _, _, _)
Spliced(content, ls, map, k, from) ==
    IF k > Len(ls) THEN Slice(content, from, Len(content))
    ELSE Slice(content, from, ls[k].startIndex) \o MarkerOf(map, k)
             \o Spliced(content, ls, map, k + 1, ls[k].endIndex)

C29_EveryOccurrenceReplaced ==
    Processed =>
        \E ls \in {ExecLoop(target, 0)} :
            /\ DOMAIN result.value.linkMap = {MarkerId(k - 1) : k \in DOMAIN ls}
            /\ Cardinality(DOMAIN result.value.linkMap) = Len(ls)
            /\ result.value.processedContent = Spliced(target, ls, result.value.linkMap, 1, 0)
            /\ \A k \in DOMAIN ls :
                  \E resolved \in {resolveWikiLink(ls[k].target, corpus)} :
                      /\ result.value.linkMap[MarkerId(k - 1)].exists <=> resolved.kind = "doc"
                      /\ result.value.linkMap[MarkerId(k - 1)].target
                            = IF resolved.kind = "doc" THEN resolved.doc.slug ELSE ls[k].target

\* two occurrences, the second with an alias, in a corpus that has no document
\* for them
C29_Witness ==
    /\ Processed
    /\ \E ls \in {ExecLoop(target, 0)} :
          /\ Len(ls) = 2
          /\ ls[2].hasAlias
          /\ \A k \in DOMAIN ls : ~result.value.linkMap[MarkerId(k - 1)].exists
          /\ Len(result.value.processedContent) > Len(target)

(***************************************************************************)
(* The backlinks panel: a component with the prop documentSlug.  Its       *)
(* effect runs when the prop changes and fetches the links of the          *)
(* document; the handlers of the fetch set the state when the response     *)
(* arrives or the fetch fails.  Nothing cancels a fetch and no handler     *)
(* looks at the prop.                                                      *)
(***************************************************************************)
PanelCorpus ==
    << Doc(ConceptsA, StringTitle(<<"A","n","t">>), TwiceB),
       Doc(ConceptsB, StringTitle(<<"B","e","e">>), <<>>),
       Doc(ProjectsC, StringTitle(<<"C","a","t">>), BAndZzz) >>

InitPanel ==
    /\ corpus = PanelCorpus
    /\ target = <<>>
    /\ result = NoResult
    /\ Idle

\* lines 35-36: data.backlinks || [] and data.outlinks || [] of the body the
\* server answers for the slug; an error body has neither list
PanelData(slug, docs) ==
    CHOOSE data \in
        { IF body.kind = "ok"
          THEN [backlinks |-> body.backlinks, outlinks |-> body.outlinks]
          ELSE [backlinks |-> <<>>, outlinks |-> <<>>] :
          body \in {LinksResponse(slug, docs, 0)} } : TRUE

\* lines 28-32 and 44: the panel is rendered with another documentSlug and the
\* effect runs: nothing for an empty slug, else loading and a fetch
PanelSetDocumentSlug ==
    /\ \E slug \in CorpusSlugs \cup {<<>>} :
          /\ slug # panel.documentSlug
          /\ IF slug = <<>>
             THEN panel' = [panel EXCEPT !.documentSlug = slug]
             ELSE /\ panel.fetches < MaxFetches
                  /\ panel' = [panel EXCEPT
                                  !.documentSlug = slug,
                                  !.loading = TRUE,
                                  !.inFlight = @ \cup {[id |-> panel.fetches + 1, slug |-> slug]},
                                  !.fetches = @ + 1]
    /\ UNCHANGED <<corpus, target, result, graphLastIndex, libLastIndex, pc, docIdx, links,
                   linkCounts>>

\* lines 33-38: the response of a fetch arrives
PanelResponse ==
    /\ \E f \in panel.inFlight :
          panel' = [panel EXCEPT
                       !.backlinks = PanelData(f.slug, corpus).backlinks,
                       !.outlinks = PanelData(f.slug, corpus).outlinks,
                       !.loading = FALSE,
                       !.inFlight = @ \ {f}]
    /\ UNCHANGED <<corpus, target, result, graphLastIndex, libLastIndex, pc, docIdx, links,
                   linkCounts>>

\* lines 39-43: a fetch fails
PanelFetchFails ==
    /\ \E f \in panel.inFlight :
          panel' = [panel EXCEPT
                       !.backlinks = <<>>,
                       !.outlinks = <<>>,
                       !.loading = FALSE,
                       !.inFlight = @ \ {f}]
    /\ UNCHANGED <<corpus, target, result, graphLastIndex, libLastIndex, pc, docIdx, links,
                   linkCounts>>

NextPanel == PanelSetDocumentSlug \/ PanelResponse \/ PanelFetchFails

SpecPanel == InitPanel /\ [][NextPanel]_vars

(***************************************************************************)
(* C30: once every fetch of the panel has ended, the panel is not loading  *)
(* and shows the links the server answers for the current documentSlug     *)
(* (or none, when a fetch failed), in whatever order the fetches ended.    *)
(***************************************************************************)
C30_PanelShowsCurrent ==
    (panel.inFlight = {} /\ panel.documentSlug # <<>>) =>
        /\ ~panel.loading
        /\ \/ /\ panel.backlinks = PanelData(panel.documentSlug, corpus).backlinks
              /\ panel.outlinks = PanelData(panel.documentSlug, corpus).outlinks
           \/ /\ panel.backlinks = <<>>
              /\ panel.outlinks = <<>>

====
